---- MODULE Spec2Model ----
(***************************************************************************)
(* Model of schedulebuddy's data_handling.Database: the users and events   *)
(* tables, add_user, add_event (end-time neighbour validation) and         *)
(* get_inverse_schedule (the free-time sweep over several calendars).      *)
(* Events are reduced to their (start_time, end_time) pair: the event name *)
(* and the weekday mask are stored verbatim and never read by either       *)
(* algorithm.                                                              *)
(***************************************************************************)
EXTENDS Bags, FiniteSets, Integers, Sequences, TLC

\* Largest time value drawn for event bounds and query windows.
MaxTime == 3

\* Largest number of rows the events table is allowed to grow to.
MaxEvents == 2

\* Usernames that callers pass; a name that was never added is unknown.
Users == {"cj", "stef"}

Times == 0..MaxTime

Event(s, e) == [start_time |-> s, end_time |-> e]

NoEvent == Event(-1, -1)

VARIABLES
    users,              \* usernames in the users table
    events,             \* per username, the bag of rows of the events table
    pc,                 \* "idle", "loop" inside the sweep, "done" when a call ended
    friends,            \* get_inverse_schedule: the users queried
    start_time,         \* get_inverse_schedule: window start
    end_time,           \* get_inverse_schedule: window end
    events_list,        \* get_inverse_schedule: remaining events per friend
    pointer,            \* get_inverse_schedule: the sweep cursor
    overlapping_times,  \* get_inverse_schedule: free windows found so far
    last                \* the call being made and what it returned or raised

vars == <<users, events, pc, friends, start_time, end_time, events_list,
          pointer, overlapping_times, last>>

sweep_locals == <<friends, start_time, end_time, events_list, pointer,
                  overlapping_times>>

Min(a, b) == IF a < b THEN a ELSE b

\* Half-open overlap test of the docstring of add_event.
Overlap(a, b) == a.start_time < b.end_time /\ b.start_time < a.end_time

ConflictFree(seq) ==
    \A i, j \in 1..Len(seq) : i < j => ~Overlap(seq[i], seq[j])

TotalEvents ==
    LET RECURSIVE Sum(_)
        Sum(S) == IF S = {} THEN 0
                  ELSE LET u == CHOOSE x \in S : TRUE
                       IN BagCardinality(events[u]) + Sum(S \ {u})
    IN Sum(Users)

\* ORDER BY end_time: every ordering of the rows that is ascending in
\* end_time; the order among rows of equal end_time is not determined.
RECURSIVE OrderByEndTime(_)
OrderByEndTime(bag) ==
    IF bag = EmptyBag THEN {<<>>}
    ELSE LET rows == BagToSet(bag)
             firsts == {e \in rows : \A f \in rows : e.end_time <= f.end_time}
         IN UNION {{<<e>> \o rest : rest \in OrderByEndTime(bag (-) SetToBag({e}))}
                   : e \in firsts}

UserExists_Always(username) == TRUE

UserExists(username) == username \in users

get_sorted_events(username) == OrderByEndTime(events[username])

\* bisect.bisect_left(a, x): lo = 0, hi = len(a), halving while lo < hi.
RECURSIVE bisect_loop(_, _, _, _)
bisect_loop(a, x, lo, hi) ==
    IF lo < hi
    THEN LET mid == (lo + hi) \div 2
         IN IF a[mid + 1] < x THEN bisect_loop(a, x, mid + 1, hi)
                              ELSE bisect_loop(a, x, lo, mid)
    ELSE lo

RECURSIVE bisect_right_loop(_, _, _, _)
bisect_right_loop(a, x, lo, hi) ==
    IF lo < hi
    THEN LET mid == (lo + hi) \div 2
         IN IF x < a[mid + 1] THEN bisect_right_loop(a, x, lo, mid)
                              ELSE bisect_right_loop(a, x, mid + 1, hi)
    ELSE lo

bisect_right(a, x) == bisect_right_loop(a, x, 0, Len(a))

bisect_left(a, x) == bisect_loop(a, x, 0, Len(a))

EndTimes(sorted_events) ==
    [i \in 1..Len(sorted_events) |-> sorted_events[i].end_time]

new_event_placement(sorted_events, e) == bisect_left(EndTimes(sorted_events), e)

InvalidRange_Swapped(s, e) == s < e

InvalidRange(s, e) == e < s

StartsBeforePrevEnds_Inclusive(s, prev) == s <= prev.end_time

StartsBeforePrevEnds(s, prev) == s < prev.end_time

EndsAfterNextStarts(e, next) == e > next.end_time

\* The checks of add_event in the order the code makes them.
add_event_outcome(username, s, e, sorted_events) ==
    IF ~UserExists(username) THEN "unknown_user"
    ELSE IF InvalidRange(s, e) THEN "invalid_range"
    ELSE LET p == new_event_placement(sorted_events, e)
         IN IF p > 0 /\ StartsBeforePrevEnds(s, sorted_events[p])
            THEN "overlaps_prev"
            ELSE IF p < Len(sorted_events)
                    /\ EndsAfterNextStarts(e, sorted_events[p + 1])
            THEN "overlaps_next"
            ELSE "ok"

add_event_conflict_NamesNext(outcome, e, sorted_events) ==
    LET p == new_event_placement(sorted_events, e)
    IN IF outcome \in {"overlaps_prev", "overlaps_next"}
       THEN sorted_events[IF p < Len(sorted_events) THEN p + 1 ELSE p]
       ELSE NoEvent

\* The event an overlap error names.
add_event_conflict(outcome, e, sorted_events) ==
    LET p == new_event_placement(sorted_events, e)
    IN IF outcome = "overlaps_prev" THEN sorted_events[p]
       ELSE IF outcome = "overlaps_next" THEN sorted_events[p + 1]
       ELSE NoEvent

InsertEvent_BeforeNeighbourChecks(outcome, bag, ev) ==
    IF outcome \in {"ok", "overlaps_prev", "overlaps_next"}
    THEN bag (+) SetToBag({ev}) ELSE bag

\* The INSERT at the end of add_event is reached only when nothing was raised.
InsertEvent(outcome, bag, ev) ==
    IF outcome = "ok" THEN bag (+) SetToBag({ev}) ELSE bag

NoCall ==
    [op |-> "none", username |-> "", start_time |-> 0, end_time |-> 0,
     sorted_events |-> <<>>, outcome |-> "none", conflict |-> NoEvent]

Init ==
    /\ users = {}
    /\ events = [u \in Users |-> EmptyBag]
    /\ pc = "idle"
    /\ friends = <<>>
    /\ start_time = 0
    /\ end_time = 0
    /\ events_list = <<>>
    /\ pointer = 0
    /\ overlapping_times = <<>>
    /\ last = NoCall

add_user(username) ==
    /\ pc = "idle"
    /\ users' = users \cup {username}
    /\ last' = [NoCall EXCEPT !.op = "add_user", !.username = username,
                  !.outcome = IF UserExists(username) THEN "taken" ELSE "ok"]
    /\ pc' = "done"
    /\ UNCHANGED <<events, sweep_locals>>

add_event(username, s, e) ==
    /\ pc = "idle"
    /\ \E sorted_events \in
            (IF UserExists(username) /\ ~InvalidRange(s, e)
             THEN get_sorted_events(username) ELSE {<<>>}) :
         LET outcome == add_event_outcome(username, s, e, sorted_events)
         IN /\ outcome = "ok" => TotalEvents < MaxEvents
            /\ events' = [events EXCEPT
                            ![username] = InsertEvent(outcome, @, Event(s, e))]
            /\ last' = [NoCall EXCEPT
                          !.op = "add_event", !.username = username,
                          !.start_time = s, !.end_time = e,
                          !.sorted_events = sorted_events,
                          !.outcome = outcome,
                          !.conflict = add_event_conflict(outcome, e, sorted_events)]
    /\ pc' = "done"
    /\ UNCHANGED <<users, sweep_locals>>

\* Every choice of one sorted event list per friend, in the order listed.
RECURSIVE SortedEventsOf(_)
SortedEventsOf(fs) ==
    IF fs = <<>> THEN {<<>>}
    ELSE {<<first>> \o rest : first \in get_sorted_events(Head(fs)),
                              rest \in SortedEventsOf(Tail(fs))}

\* Lists of distinct usernames a caller may query, the empty list included.
RECURSIVE FriendListsOver(_)
FriendListsOver(S) ==
    {<<>>} \cup UNION {{<<u>> \o rest : rest \in FriendListsOver(S \ {u})} : u \in S}

FriendLists == FriendListsOver(Users)

LoopCond_Inclusive(p, e) == p <= e

LoopCond(p, e) == p < e

DropIrrelevant_Inclusive(evs, p) ==
    LET keep == {i \in 1..Len(evs) : evs[i].end_time >= p}
    IN IF keep = {} THEN <<>>
       ELSE LET first == CHOOSE i \in keep : \A j \in keep : i <= j
            IN SubSeq(evs, first, Len(evs))

\* events[next(i for (i, event) in enumerate(events) if event.end_time > pointer):]
\* and the empty list when no such event exists (StopIteration).
DropIrrelevant(evs, p) ==
    LET keep == {i \in 1..Len(evs) : evs[i].end_time > p}
    IN IF keep = {} THEN <<>>
       ELSE LET first == CHOOSE i \in keep : \A j \in keep : i <= j
            IN SubSeq(evs, first, Len(evs))

BusyAt_Strict(ev, p) == ev.start_time < p

BusyAt(ev, p) == ev.start_time <= p

BusyUntil_Start(ev) == ev.start_time

\* pointer = events_list[event_index][0].end_time
BusyUntil(ev) == ev.end_time

\* The for loop of one pass of the while loop, from calendar index i on: it
\* trims each calendar and breaks at the first one that is busy at pointer.
RECURSIVE Scan(_, _, _)
Scan(el, i, p) ==
    IF i > Len(el)
    THEN [events_list |-> el, broke |-> FALSE, pointer |-> p]
    ELSE LET trimmed == DropIrrelevant(el[i], p)
             el2 == [el EXCEPT ![i] = trimmed]
         IN IF trimmed # <<>> /\ BusyAt(trimmed[1], p)
            THEN [events_list |-> el2, broke |-> TRUE,
                  pointer |-> BusyUntil(trimmed[1])]
            ELSE Scan(el2, i + 1, p)

NextEndTime_FirstCalendar(el) ==
    LET i == CHOOSE k \in 1..Len(el) :
                el[k] # <<>> /\ \A j \in 1..(k - 1) : el[j] = <<>>
    IN el[i][1].start_time

\* min(events[0].start_time for events in events_list if events)
NextEndTime(el) ==
    LET starts == {el[i][1].start_time : i \in {j \in 1..Len(el) : el[j] # <<>>}}
    IN CHOOSE m \in starts : \A n \in starts : m <= n

AllExhausted(el) == \A i \in 1..Len(el) : el[i] = <<>>

FreeWindowEnd_Unclamped(next_end_time, e) == next_end_time

FreeWindowEnd(next_end_time, e) == Min(next_end_time, e)

FreeTime(s, e) == [start_time |-> s, end_time |-> e]

TailWindows_Dropped(out, p, e) == out

\* The except ValueError branch: the rest of the window, when there is one.
TailWindows(out, p, e) ==
    IF p # e THEN Append(out, FreeTime(p, e)) ELSE out

\* The whole while loop from cursor p on: the list that is returned.
RECURSIVE RunSweep(_, _, _, _)
RunSweep(el, p, e, out) ==
    IF ~LoopCond(p, e) THEN out
    ELSE LET scan == Scan(el, 1, p)
         IN IF scan.broke
            THEN RunSweep(scan.events_list, scan.pointer, e, out)
            ELSE IF AllExhausted(scan.events_list)
            THEN TailWindows(out, p, e)
            ELSE RunSweep(scan.events_list, NextEndTime(scan.events_list), e,
                          Append(out,
                                 FreeTime(p, FreeWindowEnd(NextEndTime(scan.events_list), e))))

ClearLocals ==
    /\ friends' = <<>>
    /\ start_time' = 0
    /\ end_time' = 0
    /\ events_list' = <<>>
    /\ pointer' = 0
    /\ overlapping_times' = <<>>

\* The call up to the first test of the while loop; an unknown friend makes
\* get_sorted_events raise before anything else happens.
get_inverse_schedule(fs, s, e) ==
    /\ pc = "idle"
    /\ IF \A i \in 1..Len(fs) : UserExists(fs[i])
       THEN /\ \E el \in SortedEventsOf(fs) : events_list' = el
            /\ friends' = fs
            /\ start_time' = s
            /\ end_time' = e
            /\ pointer' = s
            /\ overlapping_times' = <<>>
            /\ pc' = "loop"
            /\ last' = [NoCall EXCEPT !.op = "get_inverse_schedule",
                                      !.outcome = "running"]
       ELSE /\ last' = [NoCall EXCEPT !.op = "get_inverse_schedule",
                                      !.outcome = "unknown_user"]
            /\ pc' = "done"
            /\ friends' = fs
            /\ UNCHANGED <<start_time, end_time, events_list, pointer,
                           overlapping_times>>
    /\ UNCHANGED <<users, events>>

\* A pass of the while loop that finds a calendar busy at pointer.
SweepBusy ==
    /\ pc = "loop"
    /\ LoopCond(pointer, end_time)
    /\ LET scan == Scan(events_list, 1, pointer)
       IN /\ scan.broke
          /\ events_list' = scan.events_list
          /\ pointer' = scan.pointer
    /\ UNCHANGED <<users, events, pc, friends, start_time, end_time,
                   overlapping_times, last>>

\* A pass that finds nobody busy at pointer and some event still ahead.
SweepFree ==
    /\ pc = "loop"
    /\ LoopCond(pointer, end_time)
    /\ LET scan == Scan(events_list, 1, pointer)
       IN /\ ~scan.broke
          /\ ~AllExhausted(scan.events_list)
          /\ events_list' = scan.events_list
          /\ overlapping_times' =
                Append(overlapping_times,
                       FreeTime(pointer,
                                FreeWindowEnd(NextEndTime(scan.events_list), end_time)))
          /\ pointer' = NextEndTime(scan.events_list)
    /\ UNCHANGED <<users, events, pc, friends, start_time, end_time, last>>

\* A pass that finds every calendar exhausted: the rest of the window is
\* free and the loop is left by break.
SweepTail ==
    /\ pc = "loop"
    /\ LoopCond(pointer, end_time)
    /\ LET scan == Scan(events_list, 1, pointer)
       IN /\ ~scan.broke
          /\ AllExhausted(scan.events_list)
          /\ events_list' = scan.events_list
          /\ overlapping_times' = TailWindows(overlapping_times, pointer, end_time)
    /\ pc' = "done"
    /\ last' = [last EXCEPT !.outcome = "ok"]
    /\ UNCHANGED <<users, events, friends, start_time, end_time, pointer>>

\* The while condition fails and the loop is left.
SweepExit ==
    /\ pc = "loop"
    /\ ~LoopCond(pointer, end_time)
    /\ pc' = "done"
    /\ last' = [last EXCEPT !.outcome = "ok"]
    /\ UNCHANGED <<users, events, sweep_locals>>

\* The call is over: its result or exception is with the caller and the
\* locals of the call are gone.
Return ==
    /\ pc = "done"
    /\ pc' = "idle"
    /\ last' = NoCall
    /\ ClearLocals
    /\ UNCHANGED <<users, events>>

Next ==
    \/ \E username \in Users : add_user(username)
    \/ \E username \in Users, s \in Times, e \in Times : add_event(username, s, e)
    \/ \E fs \in FriendLists, s \in Times, e \in Times : get_inverse_schedule(fs, s, e)
    \/ SweepBusy
    \/ SweepFree
    \/ SweepTail
    \/ SweepExit
    \/ Return

Spec == Init /\ [][Next]_vars

\* A pass of the while loop of get_inverse_schedule.
SweepStep == SweepBusy \/ SweepFree \/ SweepTail \/ SweepExit

\* The loop is straight-line code inside one call: once entered it keeps
\* running until it is left.
FairSpec == Spec /\ WF_vars(SweepStep)
(***************************************************************************)
(* Properties                                                              *)
(***************************************************************************)

StoredEvents(username) == BagToSet(events[username])

\* The stored events of a user, each as often as it is stored, in some order.
Calendar(username) == CHOOSE seq \in OrderByEndTime(events[username]) : TRUE

Covers(ev, t) == ev.start_time <= t /\ t < ev.end_time

Queried == {friends[i] : i \in 1..Len(friends)}

\* Some queried user has a stored event covering time point t.
BusyPoint(t) == \E u \in Queried : \E ev \in StoredEvents(u) : Covers(ev, t)

InWindow(w, t) == w.start_time <= t /\ t < w.end_time

\* Time point t lies inside one of the windows found.
FreePoint(t) ==
    \E i \in 1..Len(overlapping_times) : InWindow(overlapping_times[i], t)

\* get_inverse_schedule has left its loop with the list it returns.
SweepDone ==
    pc = "done" /\ last.op = "get_inverse_schedule" /\ last.outcome = "ok"

QueriedConflictFree == \A u \in Queried : ConflictFree(Calendar(u))

\* add_event got as far as the neighbour checks.
Validated ==
    /\ pc = "done"
    /\ last.op = "add_event"
    /\ last.outcome \in {"ok", "overlaps_prev", "overlaps_next"}

Candidate == Event(last.start_time, last.end_time)

\* C1: no two events stored for the same user overlap under the half-open
\* test, whatever sequence of add_event calls built the calendar.
C1_NoStoredOverlap == \A u \in Users : ConflictFree(Calendar(u))

\* C2: on a conflict-free calendar sorted by end time, add_event accepts a
\* candidate with start <= end exactly when the candidate overlaps no
\* existing event of that user.
C2_AcceptIffNoOverlap ==
    (Validated /\ ConflictFree(last.sorted_events))
        => (last.outcome = "ok"
              <=> \A i \in 1..Len(last.sorted_events) :
                     ~Overlap(Candidate, last.sorted_events[i]))

\* C3: no time point inside a window returned by get_inverse_schedule is
\* covered by a stored event of a queried user.
C3_FreeWindowsAreFree ==
    SweepDone => \A t \in Times : FreePoint(t) => ~BusyPoint(t)

\* C4: for conflict-free calendars and windowStart <= windowEnd, a point of
\* the query window lies in a returned window exactly when no event of a
\* queried calendar covers it.
C4_SweepTotality ==
    (SweepDone /\ start_time <= end_time /\ QueriedConflictFree)
        => \A t \in Times :
              (start_time <= t /\ t < end_time) => (FreePoint(t) <=> ~BusyPoint(t))

\* C5: consecutive returned windows never share a boundary: the first ends
\* strictly before the second starts and some queried event is busy between.
C5_SweepMaximality ==
    (SweepDone /\ QueriedConflictFree)
        => \A i \in 1..(Len(overlapping_times) - 1) :
              LET w1 == overlapping_times[i]
                  w2 == overlapping_times[i + 1]
              IN /\ w1.end_time < w2.start_time
                 /\ \E t \in Times :
                       w1.end_time <= t /\ t < w2.start_time /\ BusyPoint(t)

\* C6: the returned windows are non-empty, inside the query window, in time
\* order and non-overlapping.
C6_WindowsOrderedInside ==
    SweepDone =>
        /\ \A i \in 1..Len(overlapping_times) :
              LET w == overlapping_times[i]
              IN /\ start_time <= w.start_time
                 /\ w.start_time < w.end_time
                 /\ w.end_time <= end_time
        /\ \A i \in 1..(Len(overlapping_times) - 1) :
              overlapping_times[i].end_time <= overlapping_times[i + 1].start_time

C6_Witness ==
    /\ SweepDone
    /\ Len(overlapping_times) >= 2
    /\ \E t \in Times : start_time <= t /\ t < end_time /\ BusyPoint(t)

\* C7: every stored event has start <= end, and add_event with
\* end_time < start_time is rejected whatever the calendar holds.
C7_StoredRangesValid ==
    /\ \A u \in Users : \A ev \in StoredEvents(u) : ev.start_time <= ev.end_time
    /\ (last.op = "add_event" /\ last.end_time < last.start_time)
          => last.outcome \in {"unknown_user", "invalid_range"}

C7_Witness ==
    /\ last.op = "add_event"
    /\ last.end_time < last.start_time
    /\ last.outcome = "invalid_range"
    /\ events[last.username] # EmptyBag

\* C8: when the insertion position p is inside the calendar and the candidate
\* ends after the event at p starts, add_event rejects the candidate.
C8_RejectsWhenEndsAfterNextStarts ==
    LET p == new_event_placement(last.sorted_events, last.end_time)
    IN (/\ Validated
        /\ p < Len(last.sorted_events)
        /\ last.end_time > last.sorted_events[p + 1].start_time)
          => last.outcome # "ok"

\* C9: a rejected add_event leaves every user's stored events as they were,
\* and the stored events change only by one accepted add_event storing its
\* candidate for its user.
C9_RejectedStoresNothing ==
    [][/\ (last'.op = "add_event" /\ last'.outcome # "ok") => events' = events
       /\ events' # events =>
            /\ last'.op = "add_event"
            /\ last'.outcome = "ok"
            /\ events' = [events EXCEPT ![last'.username] =
                            @ (+) SetToBag({Event(last'.start_time, last'.end_time)})]]_vars

C9_Witness ==
    /\ last.op = "add_event"
    /\ last.outcome = "overlaps_prev"
    /\ events[last.username] # EmptyBag

\* C10: a query whose window start equals its window end returns the empty
\* list, whatever the queried calendars hold.
C10_EmptyRangeEmptyResult ==
    (SweepDone /\ start_time = end_time) => overlapping_times = <<>>

C10_Witness ==
    /\ SweepDone
    /\ start_time = end_time
    /\ overlapping_times = <<>>
    /\ \E u \in Queried : \E ev \in StoredEvents(u) : ev.end_time > end_time
RemoveAt(seq, i) == SubSeq(seq, 1, i - 1) \o SubSeq(seq, i + 1, Len(seq))

\* The lists get_inverse_schedule can return for the friends and window of
\* the call, one per order among equal end times.
PossibleResults ==
    {RunSweep(el, start_time, end_time, <<>>) : el \in SortedEventsOf(friends)}

\* C11: with no queried calendar, or only calendars without events, and
\* windowStart < windowEnd, the result is the one window
\* [windowStart, windowEnd); and leaving out a calendar without events never
\* changes the result of a query.
C11_EmptyCalendarsNeverBusy ==
    SweepDone =>
        /\ overlapping_times \in PossibleResults
        /\ ((\A u \in Queried : events[u] = EmptyBag) /\ start_time < end_time)
              => overlapping_times = <<FreeTime(start_time, end_time)>>
        /\ \A el \in SortedEventsOf(friends) : \A i \in 1..Len(el) :
              el[i] = <<>> =>
                 RunSweep(RemoveAt(el, i), start_time, end_time, <<>>)
                    = RunSweep(el, start_time, end_time, <<>>)

C11_Witness ==
    /\ SweepDone
    /\ Len(friends) = 2
    /\ events[friends[1]] = EmptyBag
    /\ events[friends[2]] # EmptyBag
    /\ start_time < end_time
    /\ overlapping_times # <<>>
    /\ overlapping_times # <<FreeTime(start_time, end_time)>>

\* C12: a call of get_inverse_schedule or add_event fails with the
\* unknown-user error exactly when it names a user that does not exist, and
\* such a call returns no list, reads no calendar and stores nothing.
C12_UnknownUserFails ==
    [][(pc = "idle" /\ pc' # "idle") =>
          /\ last'.op = "get_inverse_schedule" =>
                /\ (\E i \in 1..Len(friends') : friends'[i] \notin users)
                      <=> last'.outcome = "unknown_user"
                /\ last'.outcome = "unknown_user" =>
                      /\ pc' = "done"
                      /\ overlapping_times' = <<>>
                      /\ events_list' = <<>>
                      /\ events' = events
                      /\ users' = users
          /\ last'.op = "add_event" =>
                /\ last'.username \notin users <=> last'.outcome = "unknown_user"
                /\ last'.outcome = "unknown_user" =>
                      /\ events' = events
                      /\ users' = users]_vars

C12_Witness ==
    /\ pc = "done"
    /\ last.op = "get_inverse_schedule"
    /\ last.outcome = "unknown_user"
    /\ Len(friends) = 2
    /\ friends[1] \in users
    /\ events[friends[1]] # EmptyBag
\* C13: the sweep loop terminates, because every pass that stays in the loop
\* moves pointer strictly forward.
C13_SweepTerminates ==
    /\ [][(pc = "loop" /\ pc' = "loop") => pointer' > pointer]_vars
    /\ (pc = "loop") ~> (pc = "done")

C13_Witness ==
    /\ SweepDone
    /\ pointer > start_time
    /\ overlapping_times # <<>>
    /\ \E t \in Times : start_time <= t /\ t < end_time /\ BusyPoint(t)
\* C14: in the sweep loop of a query with windowStart <= windowEnd, pointer
\* never decreases and stays within windowStart..windowEnd after every
\* assignment.
C14_PointerWithinWindow ==
    [][(pc = "loop" /\ start_time <= end_time) =>
          /\ pointer' >= pointer
          /\ start_time <= pointer'
          /\ pointer' <= end_time]_vars

\* C14 as amended: pointer never decreases, is never below windowStart and is
\* assigned only while it is below windowEnd; it may pass windowEnd, and then
\* it is the end or the start of a stored event of a queried user.
C14_PointerMonotone ==
    [][(pc = "loop" /\ start_time <= end_time) =>
          /\ pointer' >= pointer
          /\ start_time <= pointer'
          /\ pointer' # pointer => pointer < end_time
          /\ pointer' > end_time =>
                \E u \in Queried : \E ev \in StoredEvents(u) :
                    pointer' \in {ev.start_time, ev.end_time}]_vars

C14_Witness ==
    /\ SweepDone
    /\ start_time < end_time
    /\ pointer > end_time
    /\ overlapping_times # <<>>
\* The front event of a calendar once the events ending at or before p are
\* dropped; only asked of calendars that keep an event.
FrontAfterDrop(evs, p) ==
    LET i == CHOOSE k \in 1..Len(evs) :
                /\ evs[k].end_time > p
                /\ \A j \in 1..(k - 1) : evs[j].end_time <= p
    IN evs[i]

\* The calendars that are busy at p: their front event after dropping has
\* start <= p.
BusyCalendars(el, p) ==
    {i \in 1..Len(el) :
        /\ \E k \in 1..Len(el[i]) : el[i][k].end_time > p
        /\ FrontAfterDrop(el[i], p).start_time <= p}

MinOf(S) == CHOOSE m \in S : \A n \in S : m <= n

\* C15: when some calendar is busy at pointer, the pass sets pointer to the
\* minimum end over all calendars busy at pointer, emits no window and stays
\* in the loop.
C15_BusyJumpsToMinEnd ==
    [][(pc = "loop" /\ pointer < end_time
          /\ BusyCalendars(events_list, pointer) # {}) =>
          /\ pointer' = MinOf({FrontAfterDrop(events_list[i], pointer).end_time :
                                 i \in BusyCalendars(events_list, pointer)})
          /\ overlapping_times' = overlapping_times
          /\ pc' = "loop"]_vars

\* C15 as amended: pointer is set to the end of the front event of the first
\* calendar, in list order, that is busy at pointer.
C15_BusyJumpsToFirstBusyEnd ==
    [][(pc = "loop" /\ pointer < end_time
          /\ BusyCalendars(events_list, pointer) # {}) =>
          /\ pointer' = FrontAfterDrop(
                           events_list[MinOf(BusyCalendars(events_list, pointer))],
                           pointer).end_time
          /\ overlapping_times' = overlapping_times
          /\ pc' = "loop"]_vars

\* Both calendars were busy at windowStart and pointer went to the end of the
\* first one, past the earlier end of the second one.
C15_Witness ==
    /\ pc = "loop"
    /\ Len(events_list) = 2
    /\ overlapping_times = <<>>
    /\ pointer > start_time
    /\ events_list[1] # <<>>
    /\ events_list[1][1].start_time <= start_time
    /\ events_list[1][1].end_time = pointer
    /\ events_list[2] # <<>>
    /\ events_list[2][1].start_time <= start_time
    /\ events_list[2][1].end_time > start_time
    /\ events_list[2][1].end_time < pointer
\* The insertion position add_event computed for the candidate.
Placement == new_event_placement(last.sorted_events, last.end_time)

\* C16: every existing event before the insertion position p has
\* end <= candidate.end and every existing event at or after p has
\* end > candidate.end, also when an existing event ends with the candidate.
C16_PlacementSplitsAtGreater ==
    Validated =>
        \A i \in 1..Len(last.sorted_events) :
            /\ i <= Placement => last.sorted_events[i].end_time <= last.end_time
            /\ i > Placement => last.sorted_events[i].end_time > last.end_time

\* C16 as amended: every existing event before p has end < candidate.end and
\* every existing event at or after p has end >= candidate.end.
C16_PlacementSplitsAtGreaterOrEqual ==
    Validated =>
        /\ Placement \in 0..Len(last.sorted_events)
        /\ \A i \in 1..Len(last.sorted_events) :
              /\ i <= Placement => last.sorted_events[i].end_time < last.end_time
              /\ i > Placement => last.sorted_events[i].end_time >= last.end_time

C16_Witness ==
    /\ Validated
    /\ Len(last.sorted_events) = 2
    /\ Placement = 1
    /\ last.sorted_events[2].end_time = last.end_time
\* C17: an overlap error of add_event names an existing event that overlaps
\* the candidate under the half-open test, and a candidate that overlaps no
\* existing event, one that touches an existing event at a boundary included,
\* is accepted.
C17_OverlapErrorsAreReal ==
    Validated =>
        /\ last.outcome \in {"overlaps_prev", "overlaps_next"}
              => /\ \E i \in 1..Len(last.sorted_events) :
                        last.sorted_events[i] = last.conflict
                 /\ Overlap(Candidate, last.conflict)
        /\ (\A i \in 1..Len(last.sorted_events) :
                ~Overlap(Candidate, last.sorted_events[i]))
              => last.outcome = "ok"

\* An accepted candidate that starts exactly where its previous end-time
\* neighbour ends.
C17_Witness ==
    /\ Validated
    /\ last.outcome = "ok"
    /\ last.start_time < last.end_time
    /\ Placement > 0
    /\ last.sorted_events[Placement].start_time < last.sorted_events[Placement].end_time
    /\ last.sorted_events[Placement].end_time = last.start_time
\* C18: a candidate that overlaps both its end-time neighbours is rejected,
\* and the rejection names the previous neighbour, never the next one.
C18_BothNeighboursNamesPrevious ==
    (/\ Validated
     /\ Placement > 0
     /\ Placement < Len(last.sorted_events)
     /\ Overlap(Candidate, last.sorted_events[Placement])
     /\ Overlap(Candidate, last.sorted_events[Placement + 1]))
        => /\ last.outcome = "overlaps_prev"
           /\ last.conflict = last.sorted_events[Placement]

C18_Witness ==
    /\ Validated
    /\ Placement > 0
    /\ Placement < Len(last.sorted_events)
    /\ Overlap(Candidate, last.sorted_events[Placement])
    /\ Overlap(Candidate, last.sorted_events[Placement + 1])
    /\ ~Overlap(last.sorted_events[Placement], last.sorted_events[Placement + 1])
    /\ last.outcome = "overlaps_prev"
Reverse(seq) == [i \in 1..Len(seq) |-> seq[Len(seq) + 1 - i]]

\* C19: listing the same users in another order gives the same list of free
\* windows, for every order among equal end times within each calendar.
C19_FriendOrderIrrelevant ==
    SweepDone =>
        /\ overlapping_times \in PossibleResults
        /\ \A el \in SortedEventsOf(friends) :
              RunSweep(Reverse(el), start_time, end_time, <<>>)
                 = RunSweep(el, start_time, end_time, <<>>)

\* Two users with different calendars, one of them busy at the window start,
\* and a result that is not empty.
C19_Witness ==
    /\ SweepDone
    /\ Len(friends) = 2
    /\ events[friends[1]] # EmptyBag
    /\ events[friends[2]] # EmptyBag
    /\ events[friends[1]] # events[friends[2]]
    /\ BusyPoint(start_time)
    /\ overlapping_times # <<>>
====
